---- MODULE Spec2Model ----
(***************************************************************************)
(* Model of the User module of the background application                  *)
(* (src/src/js/bg/modules/user.js): the login, logout and unlock handlers  *)
(* that the event bus triggers, as steps of one JavaScript event loop.     *)
(* An async handler is cut at its awaits: everything between two awaits    *)
(* is one atomic step.  The collaborators the module calls but does not    *)
(* define (the state store, the crypto identity provider, the vault) are   *)
(* modelled from their contracts in the specification.                     *)
(***************************************************************************)
EXTENDS Integers, Sequences, FiniteSets, Bags, TLC

\* ------------------------------------------------------------ bounds
\* Handler calls (login, unlock) that may be suspended at an await at one time.
MaxPending == 2

\* ------------------------------------------------------------ values
Usernames == {"u1"}
Passwords == {"p1", "p2"}
Salts == {"s1", "s2"}

Null == "null"
Undefined == "undefined"
NoSalt == "none"
NoKey == <<>>
NoAuth == <<>>

\* Character sequences stand for the JavaScript strings the code inspects.
RateLimitMarker ==
    <<"T", "o", "o", " ", "m", "a", "n", "y", " ", "f", "a", "i", "l", "e", "d", " ",
      "l", "o", "g", "i", "n", " ", "a", "t", "t", "e", "m", "p", "t", "s">>

RateLimitedMessage ==
    RateLimitMarker \o
    <<";", " ", "t", "r", "y", " ", "a", "g", "a", "i", "n", " ", "a", "t", " ",
      "1", "3", ":", "4", "5", ":", "0", "0", "Z">>

OtherErrorMessage ==
    <<"I", "n", "v", "a", "l", "i", "d", " ", "c", "r", "e", "d", "e", "n", "t", "i", "a", "l", "s">>

ClientUrl42 ==
    <<"/", "a", "p", "i", "/", "v", "1", ".", "0", "/", "c", "l", "i", "e", "n", "t", "/", "4", "2", "/">>

DigitOrDot == {"0", "1", "2", "3", "4", "5", "6", "7", "8", "9", "."}

\* ------------------------------------------------------------ strings
RECURSIVE Concat(_)
\* The JavaScript string made of the characters of cs.
Concat(cs) == IF cs = <<>> THEN "" ELSE Head(cs) \o Concat(Tail(cs))

RECURSIVE Join(_, _)
\* Array.prototype.join(sep).
Join(parts, sep) ==
    IF parts = <<>> THEN ""
    ELSE IF Len(parts) = 1 THEN Head(parts)
    ELSE Head(parts) \o sep \o Join(Tail(parts), sep)

\* String.prototype.includes(t).
Includes(s, t) ==
    \E i \in 0..(Len(s) - Len(t)) : SubSeq(s, i + 1, i + Len(t)) = t

\* String.prototype.substring(from, to), 0-based, negative indices clamped to 0.
Substring(s, from, to) ==
    LET f == IF from < 0 THEN 0 ELSE from
        t == IF to < 0 THEN 0 ELSE to
    IN  SubSeq(s, f + 1, t)

\* client.replace(/[^\d.]/g, '')
ClientId(client) == Concat(SelectSeq(client, LAMBDA c : c \in DigitOrDot))

\* [first_name, preposition, last_name].filter((i) => i !== '').join(' ')
RealName(u) ==
    Join(SelectSeq(<<u.first_name, u.preposition, u.last_name>>, LAMBDA i : i # ""), " ")

\* ------------------------------------------------------------ responses
NOTOK_STATUS == {400, 401, 403}
Statuses == {200, 401}

NoError == [present |-> FALSE, message |-> <<>>]
Errors == {NoError,
           [present |-> TRUE, message |-> RateLimitedMessage],
           [present |-> TRUE, message |-> OtherErrorMessage]}

NoProfile ==
    [first_name |-> "", preposition |-> "", last_name |-> "",
     client |-> <<>>, id |-> Undefined, token |-> Undefined]

Profiles ==
    {[first_name |-> "Ada", preposition |-> "", last_name |-> "Byron",
      client |-> ClientUrl42, id |-> "id1", token |-> "sip1"],
     [first_name |-> "Eve", preposition |-> "", last_name |-> "",
      client |-> <<>>, id |-> "id3", token |-> "sip3"]}

\* What the profile endpoint may answer: a failure (with or without an error
\* body) or a profile.
Responses ==
    {[status |-> s, error |-> e, user |-> NoProfile] :
        s \in Statuses \cap NOTOK_STATUS, e \in Errors}
    \cup {[status |-> s, error |-> NoError, user |-> p] :
        s \in Statuses \ NOTOK_STATUS, p \in Profiles}

NoResponse == [status |-> 0, error |-> NoError, user |-> NoProfile]

\* The portal tokens the autologin endpoint hands out.
Tokens == {"t1", "t2"}

\* What the autologin endpoint answers: res.data (the field user of a response
\* record) carries the token.
TokenResponses ==
    {[status |-> 200, error |-> NoError, user |-> [NoProfile EXCEPT !.token = t]] :
        t \in Tokens}

\* ------------------------------------------------------------ state
VARIABLES
    user,        \* state.user: the session fields
    settings,    \* state.settings.vault: active, unlocked
    ui,          \* state.ui: layer, menubar.default
    app,         \* state.app: installed, updated
    client,      \* app.api: the basic-auth credentials of the Auth Client
    store,       \* the persisted vault: encrypted, salt, the key its canary validates
    sessionKey,  \* app.crypto: the vault key held in memory
    services,    \* the call subsystem: "stopped" | "running"
    logins,      \* the bag of login() calls suspended at an await
    unlocks,     \* the bag of pending __unlockVault() calls of the unlock handler
    refreshes,   \* the number of _platformData() calls suspended at their request
    calls,       \* state.calls.calls as the call switch sees it: callId -> status
    available,   \* what newCallAllowed() returned when it was evaluated last
    out,         \* the outbound calls (notify, persist, ...) of the latest step
    last         \* the latest step: its operation, what it finished, its response

vars == <<user, settings, ui, app, client, store, sessionKey, services,
          logins, unlocks, refreshes, calls, available, out, last>>

\* ------------------------------------------------------------ events
Ev(call, arg) == [call |-> call, arg |-> arg, opt |-> "-", mode |-> "-"]

Notify(icon, message, type) ==
    [call |-> "fg:notify", arg |-> message, opt |-> icon, mode |-> type]

\* setState options.
NoOptions == [persist |-> FALSE, encrypt |-> "omitted"]
Persist == [persist |-> TRUE, encrypt |-> "omitted"]
PersistPlain == [persist |-> TRUE, encrypt |-> "false"]

\* The flush of setState(partial, options): nothing without persist; with it, one
\* write of the touched branch, in plaintext when encrypt is false, otherwise as
\* the vault's encrypted flag decides, and with the in-memory key, which only
\* an unlocked vault has.
Flush(branch, options, st, vault) ==
    IF ~options.persist THEN <<>>
    ELSE <<[call |-> "persist", arg |-> branch,
            opt |-> "encrypt:" \o options.encrypt,
            mode |-> IF options.encrypt = "false" \/ ~st.encrypted THEN "plain"
                     ELSE IF vault.unlocked THEN "cipher"
                     ELSE "StateError.VaultLocked"]>>

\* ------------------------------------------------------------ crypto
\* Password-based key derivation with the persisted salt: deterministic, and
\* distinct credentials or salts give distinct keys.
DeriveKey(username, password, salt) == <<username, password, salt>>

\* loadIdentity(username, password): derives the key with the persisted salt;
\* on first use it creates the salt together with the first successful
\* derivation (the vault is then configured), or fails and creates nothing.
LoadIdentity(username, password, st) ==
    IF st.salt = NoSalt
    THEN {[ok |-> FALSE, error |-> "IdentityError", key |-> NoKey, store |-> st]}
         \cup {[ok |-> TRUE, error |-> "-", key |-> DeriveKey(username, password, s),
                store |-> [encrypted |-> TRUE, salt |-> s,
                           vaultKey |-> DeriveKey(username, password, s)]] : s \in Salts}
    ELSE {[ok |-> TRUE, error |-> "-", key |-> DeriveKey(username, password, st.salt),
           store |-> st]}

\* __unlockVault(username, password): re-derives the key for the existing salt
\* and verifies it against the vault's canary.
UnlockVault(username, password, st) ==
    IF ~st.encrypted \/ st.salt = NoSalt
    THEN {[ok |-> FALSE, error |-> "LockError.NoVaultConfigured", key |-> NoKey, store |-> st]}
    ELSE IF DeriveKey(username, password, st.salt) = st.vaultKey
    THEN {[ok |-> TRUE, error |-> "-", key |-> st.vaultKey, store |-> st]}
    ELSE {[ok |-> FALSE, error |-> "LockError.InvalidPassword", key |-> NoKey, store |-> st]}

\* A successful derivation leaves the vault unlocked.
Unlocked(s) == [s EXCEPT !.vault.unlocked = TRUE]

\* ------------------------------------------------------------ initial state
\* _initialState()
InitialUser ==
    [authenticated |-> FALSE, developer |-> FALSE, password |-> "",
     platform |-> [tokens |-> [portal |-> Null, sip |-> Null]],
     username |-> Null,
     client_id |-> Undefined, id |-> Undefined, realName |-> Undefined]

NoSnap ==
    [authenticated |-> FALSE, username |-> Null, password |-> "",
     ui |-> [layer |-> "login", menubar |-> [default |-> Null]],
     app |-> [installed |-> FALSE, updated |-> FALSE], client |-> NoAuth]

\* A login() call: where it is suspended, its arguments, and once the response
\* has arrived the path of the key derivation and the profile.  raced records
\* that logout() ran while the call was suspended.
NewLogin(username, password, snap) ==
    [pc |-> "profile", username |-> username, password |-> password, path |-> "-",
     user |-> NoProfile, raced |-> FALSE, snap |-> snap]

Step(op) == [op |-> op, path |-> "-", raced |-> FALSE, snap |-> NoSnap, res |-> NoResponse]

NoVault == [encrypted |-> FALSE, salt |-> NoSalt, vaultKey |-> NoKey]

\* The process starts anonymous; the installation is new, updated or neither,
\* and a vault was configured by an earlier run or not.
InitSession ==
    /\ user = InitialUser
    /\ \E a \in BOOLEAN : settings = [vault |-> [active |-> a, unlocked |-> FALSE]]
    /\ ui = [layer |-> "login", menubar |-> [default |-> Null]]
    /\ app \in {[installed |-> TRUE, updated |-> FALSE],
                [installed |-> FALSE, updated |-> TRUE],
                [installed |-> FALSE, updated |-> FALSE]}
    /\ client = NoAuth
    /\ store \in {NoVault}
            \cup {[encrypted |-> TRUE, salt |-> "s1", vaultKey |-> DeriveKey(u, p, "s1")] :
                    u \in Usernames, p \in Passwords}
    /\ sessionKey = NoKey
    /\ services = "stopped"
    /\ logins = EmptyBag
    /\ unlocks = EmptyBag
    /\ refreshes = 0
    /\ out = <<>>
    /\ last = Step("init")

\* No call exists at process start, and newCallAllowed() has not been evaluated.
NoCalls == <<>>
NotEvaluated == <<>>

Init ==
    /\ InitSession
    /\ calls = NoCalls
    /\ available = NotEvaluated

\* ------------------------------------------------------------ login()
One(x) == SetToBag({x})

\* The handler calls suspended at an await.
Pending == BagCardinality(logins) + BagCardinality(unlocks) + refreshes

\* What the failed transition would have to restore: the state login() starts from.
Snapshot ==
    [authenticated |-> user.authenticated, username |-> user.username,
     password |-> user.password, ui |-> ui, app |-> app, client |-> client]

\* api.setupClient(username, password); setupClient() clears the credentials.
SetupClient(username, password) == <<username, password>>

\* The message of the failure notification (lines 82-95): set in the
\* rate-limited case and in the case without an error body, and in no other.
LoginFailMessage(res) ==
    IF res.error.present
    THEN LET failMessage == res.error.message
         IN  IF Includes(failMessage, RateLimitMarker)
             THEN "Too many failed login attempts; try again at "
                  \o Concat(Substring(failMessage, Len(failMessage) - 9, Len(failMessage) - 1))
             ELSE Undefined
    ELSE "Failed to login. Please check your credentials."

\* A faulty variant: the entitlement test is missing.
Entitled_Always(profile) == TRUE

\* !user.client is false
Entitled(profile) == profile.client # <<>>

\* login(username, password) up to its first await (line 77, and the request of
\* line 78).  snap is the record of the state the call starts from.
LoginBegin(username, password, snap) ==
    /\ Pending < MaxPending
    /\ logins' = logins (+) One(NewLogin(username, password, snap))
    /\ last' = [Step("login:start") EXCEPT !.snap = snap]
    /\ client' = SetupClient(username, password)
    /\ out' = <<Ev("setupClient", "credentials"),
                Ev("get", "api/permission/systemuser/profile/")>>
    /\ UNCHANGED <<user, settings, ui, app, store, sessionKey, services, unlocks, refreshes, calls, available>>

\* The bg:user:login handler (line 25).
LoginStart(username, password) == LoginBegin(username, password, NoSnap)

\* ------------------------------------------------------------ logout()
\* A faulty variant: logout() clears the password and leaves the flag.
LogoutUser_KeepsAuthenticated(u) == [u EXCEPT !.password = ""]

\* A faulty variant: logout() forgets the username as well.
LogoutUser_ForgetsUsername(u) ==
    [u EXCEPT !.password = "", !.authenticated = FALSE, !.username = Null]

\* The user branch after logout() (lines 163 and 167).
LogoutUser(u) == [u EXCEPT !.password = "", !.authenticated = FALSE]

\* The vault flags after logout() (line 165).
LogoutSettings(s) == [s EXCEPT !.vault.active = FALSE, !.vault.unlocked = FALSE]

\* The ui branch after logout() (lines 166 and 174).
LogoutUi(v) == [v EXCEPT !.layer = "login", !.menubar.default = "inactive"]

\* A faulty variant: logout() wipes the salt with the rest of the session.
LogoutStore_DeletesSalt(st) == [st EXCEPT !.salt = NoSalt]

\* logout() keeps the persisted vault, its salt included (lines 151-156).
LogoutStore(st) == st

\* A faulty variant: the cleared password is persisted whatever the session was.
LogoutPasswordOptions_Always(u) == Persist

\* The options of the update that clears the password (line 163).
LogoutPasswordOptions(u) == IF u.authenticated THEN Persist ELSE NoOptions

\* The outbound calls of logout(), in order.
LogoutOut ==
    Flush("user.password", LogoutPasswordOptions(user), store, settings.vault)
    \o Flush("settings.vault,ui.layer,user.authenticated", PersistPlain,
             store, settings.vault)
    \o <<Ev("setupClient", "none"),
         Ev("calls.disconnect", "false"),
         Notify("user", "Goodbye!", "success")>>
    \o Flush("ui.menubar", NoOptions, store, settings.vault)

\* The suspended logins, each marked: logout() ran while it was suspended.
Raced(B) ==
    LET mark(l) == [l EXCEPT !.raced = TRUE]
        count(B2, l) == IF l \in DOMAIN B2 THEN B2[l] ELSE 0
    IN  [m \in {mark(l) : l \in DOMAIN B} |->
            count(B, m) + count(B, [m EXCEPT !.raced = FALSE])]

\* The state changes of logout() (lines 157-175), for the logout handler and for
\* the login of an account that is not a client.
LogoutBody ==
    /\ user' = LogoutUser(user)
    /\ settings' = LogoutSettings(settings)
    /\ ui' = LogoutUi(ui)
    /\ store' = LogoutStore(store)
    /\ client' = NoAuth
    /\ services' = "stopped"
    /\ out' = LogoutOut
    /\ UNCHANGED <<app, sessionKey, unlocks, refreshes, calls, available>>

\* The bg:user:logout handler (line 26).
Logout ==
    /\ LogoutBody
    /\ logins' = Raced(logins)
    /\ last' = Step("logout")

\* ------------------------------------------------------------ login(), resumed
\* The profile response arrives: lines 78-116, up to the await of the key.
LoginResponse(l, res) ==
    /\ BagIn(l, logins)
    /\ l.pc = "profile"
    /\ last' = [Step("login:response") EXCEPT !.raced = l.raced, !.snap = l.snap,
                                              !.res = res]
    /\ IF res.status \in NOTOK_STATUS
       THEN /\ out' = <<Notify("warning", LoginFailMessage(res), "warning")>>
                      \o Flush("user.password", NoOptions, store, settings.vault)
            /\ user' = [user EXCEPT !.password = ""]
            /\ logins' = logins (-) One(l)
            /\ UNCHANGED <<settings, ui, app, client, store, sessionKey, services, unlocks, refreshes, calls, available>>
       ELSE IF ~Entitled(res.user)
       THEN /\ LogoutBody
            /\ logins' = Raced(logins (-) One(l))
       ELSE /\ logins' = (logins (-) One(l))
                         (+) One([l EXCEPT !.pc = "derive", !.user = res.user,
                                    !.path = IF store.encrypted THEN "unlock" ELSE "load"])
            /\ out' = <<Ev("derive", IF store.encrypted THEN "unlock" ELSE "load")>>
            /\ UNCHANGED <<user, settings, ui, app, client, store, sessionKey,
                           services, unlocks, refreshes, calls, available>>

\* The key derivation awaited on lines 112-116: __unlockVault for a configured
\* vault (the path was chosen when the response arrived), loadIdentity otherwise.
Derivation(l, st) ==
    IF l.path = "unlock" THEN UnlockVault(l.username, l.password, st)
    ELSE LoadIdentity(l.username, l.password, st)

\* A faulty variant: the rejection is swallowed and login() runs on.
LoginProceeds_Swallowed(r) == TRUE

\* A derivation that fails rejects the awaited promise: login() throws at the
\* await and runs none of lines 118-147.
LoginProceeds(r) == r.ok

\* The first update after the key (line 118).
LoginAuthenticated(u, username) ==
    [u EXCEPT !.authenticated = TRUE, !.username = username]

\* The credential-bearing update (lines 134-146).
LoginCredentials(u, l) ==
    [u EXCEPT !.client_id = ClientId(l.user.client),
              !.id = l.user.id,
              !.password = l.password,
              !.platform.tokens.sip = l.user.token,
              !.realName = RealName(l.user)]

\* A faulty variant: the flag is written under the store's encryption policy.
LoginAuthenticatedOptions_Default == Persist

\* The options of the first update after the key (line 118).
LoginAuthenticatedOptions == PersistPlain

\* A faulty variant: the credentials are written like the two updates before them.
LoginCredentialOptions_Plain == PersistPlain

\* The options of the credential-bearing update (line 146).
LoginCredentialOptions == Persist

\* A faulty variant: an updated app lands on the settings view too.
StartLayer_Updated(a) == IF a.installed \/ a.updated THEN "settings" ELSE "contacts"

\* The landing view (lines 120-128).
StartLayer(a) == IF a.installed THEN "settings" ELSE "contacts"

\* The notification of a successful login (lines 121-128).
LoginNotify(a, l) ==
    IF a.installed
    THEN Notify("settings", "Review your softphone and audio settings.", "warning")
    ELSE Notify("user", "Welcome back, " \o RealName(l.user), "success")

\* The key derivation completes: the rest of login(), lines 112-147.
LoginDerived(l) ==
    /\ BagIn(l, logins)
    /\ l.pc = "derive"
    /\ \E r \in Derivation(l, store) :
        LET vault == IF r.ok THEN Unlocked(settings) ELSE settings
        IN  /\ store' = r.store
            /\ sessionKey' = IF r.ok THEN r.key ELSE sessionKey
            /\ settings' = vault
            /\ logins' = logins (-) One(l)
            /\ IF LoginProceeds(r)
               THEN /\ user' = LoginCredentials(LoginAuthenticated(user, l.username), l)
                    /\ app' = [app EXCEPT !.installed = FALSE, !.updated = FALSE]
                    /\ ui' = [ui EXCEPT !.layer = StartLayer(app),
                                        !.menubar.default = "active"]
                    /\ services' = "running"
                    /\ out' = Flush("user.authenticated,user.username",
                                    LoginAuthenticatedOptions, r.store, vault.vault)
                              \o <<LoginNotify(app, l)>>
                              \o Flush("app,ui", PersistPlain, r.store, vault.vault)
                              \o Flush("user.credentials", LoginCredentialOptions,
                                       r.store, vault.vault)
                              \o <<Ev("initServices", "-")>>
                    /\ last' = [Step("login:done") EXCEPT !.path = l.path,
                                    !.raced = l.raced, !.snap = l.snap]
               ELSE /\ out' = <<Ev("throw", r.error)>>
                    /\ last' = [Step("login:aborted") EXCEPT !.path = l.path,
                                    !.raced = l.raced, !.snap = l.snap]
                    /\ UNCHANGED <<user, app, ui, services>>
    /\ UNCHANGED <<client, unlocks, refreshes, calls, available>>

\* ------------------------------------------------------------ unlock
\* The bg:user:unlock handler (lines 27-29): __unlockVault is called with the
\* username of the state at that moment, and is not awaited.
UnlockStart(password) ==
    /\ Pending < MaxPending
    /\ unlocks' = unlocks (+) One([username |-> user.username, password |-> password])
    /\ last' = Step("unlock:start")
    /\ out' = <<Ev("derive", "unlock")>>
    /\ UNCHANGED <<user, settings, ui, app, client, store, sessionKey, services, logins, refreshes, calls, available>>

\* A faulty variant: a successful unlock marks the session authenticated.
UnlockUser_Authenticates(u, r) == IF r.ok THEN [u EXCEPT !.authenticated = TRUE] ELSE u

\* What the handler does to the user branch when its call completes: nothing.
UnlockUser(u, r) == u

\* The handler's __unlockVault call completes.
UnlockDone(k) ==
    /\ BagIn(k, unlocks)
    /\ \E r \in UnlockVault(k.username, k.password, store) :
        /\ store' = r.store
        /\ sessionKey' = IF r.ok THEN r.key ELSE sessionKey
        /\ settings' = IF r.ok THEN Unlocked(settings) ELSE settings
        /\ user' = UnlockUser(user, r)
        /\ out' = IF r.ok THEN <<>> ELSE <<Ev("throw", r.error)>>
        /\ last' = Step(IF r.ok THEN "unlock:done" ELSE "unlock:failed")
    /\ unlocks' = unlocks (-) One(k)
    /\ UNCHANGED <<ui, app, client, services, logins, refreshes, calls, available>>

\* ------------------------------------------------------------ update-token
\* The bg:user:update-token handler (lines 31-33) up to the await inside
\* _platformData() (line 64): the request is issued whatever the session is.
TokenStart ==
    /\ Pending < MaxPending
    /\ refreshes' = refreshes + 1
    /\ last' = Step("token:start")
    /\ out' = <<Ev("get", "api/autologin/token/")>>
    /\ UNCHANGED <<user, settings, ui, app, client, store, sessionKey, services,
                   logins, unlocks, calls, available>>

\* A faulty variant: the response overwrites the SIP token as well.
PlatformData_BothTokens(u, res) ==
    [u EXCEPT !.platform.tokens.portal = res.user.token,
              !.platform.tokens.sip = res.user.token]

\* The update of _platformData() (line 65).
PlatformData(u, res) == [u EXCEPT !.platform.tokens.portal = res.user.token]

\* The response arrives: line 65, then the callback of line 33 with the token
\* read back from the state.
TokenDone(res) ==
    /\ refreshes > 0
    /\ refreshes' = refreshes - 1
    /\ user' = PlatformData(user, res)
    /\ last' = [Step("token:done") EXCEPT !.res = res]
    /\ out' = Flush("user.platform.tokens.portal", NoOptions, store, settings.vault)
              \o <<Ev("callback", PlatformData(user, res).platform.tokens.portal)>>
    /\ UNCHANGED <<settings, ui, app, client, store, sessionKey, services,
                   logins, unlocks, calls, available>>

\* ------------------------------------------------------------ specification
Next ==
    \/ \E username \in Usernames, password \in Passwords : LoginStart(username, password)
    \/ \E l \in BagToSet(logins), res \in Responses : LoginResponse(l, res)
    \/ \E l \in BagToSet(logins) : LoginDerived(l)
    \/ Logout
    \/ \E password \in Passwords : UnlockStart(password)
    \/ \E k \in BagToSet(unlocks) : UnlockDone(k)

Spec == Init /\ [][Next]_vars

\* login() called with no other login suspended, the state it starts from
\* recorded with the call.
LoginStartTracked(username, password) ==
    /\ logins = EmptyBag
    /\ LoginBegin(username, password, Snapshot)

NextRestore ==
    \/ \E username \in Usernames, password \in Passwords :
            LoginStartTracked(username, password)
    \/ \E l \in BagToSet(logins), res \in Responses : LoginResponse(l, res)
    \/ \E l \in BagToSet(logins) : LoginDerived(l)

\* One login at a time and no other handler: between the start of a login and
\* its end only the login itself changes the state.
SpecRestore == Init /\ [][NextRestore]_vars

NextToken ==
    \/ \E username \in Usernames, password \in Passwords : LoginStart(username, password)
    \/ \E l \in BagToSet(logins), res \in Responses : LoginResponse(l, res)
    \/ \E l \in BagToSet(logins) : LoginDerived(l)
    \/ Logout
    \/ TokenStart
    \/ \E res \in TokenResponses : TokenDone(res)

\* The session with the update-token handler: logins, logouts and token
\* refreshes interleaved.
SpecToken == Init /\ [][NextToken]_vars

\* login() called with no other login suspended.
LoginStartSerial(username, password) ==
    /\ logins = EmptyBag
    /\ LoginStart(username, password)

\* The authenticated session a logout ends: the user branch and the vault flags.
SessionSnapshot == [user |-> user, vault |-> settings.vault]

\* The logout handler on an authenticated session with no login suspended, the
\* session it ends recorded with the step.
LogoutTracked ==
    /\ logins = EmptyBag
    /\ user.authenticated
    /\ LogoutBody
    /\ logins' = Raced(logins)
    /\ last' = [Step("logout") EXCEPT !.snap = SessionSnapshot]

\* login() called right after that logout with the credentials of the session
\* it ended, which the call carries along.
LoginAgain ==
    /\ last.op = "logout"
    /\ LoginBegin(last.snap.user.username, last.snap.user.password, last.snap)

NextRoundTrip ==
    \/ \E username \in Usernames, password \in Passwords :
            LoginStartSerial(username, password)
    \/ \E l \in BagToSet(logins), res \in Responses : LoginResponse(l, res)
    \/ \E l \in BagToSet(logins) : LoginDerived(l)
    \/ LogoutTracked
    \/ LoginAgain

\* Serial logins and logouts, each logout followed by a login with the same
\* credentials.
SpecRoundTrip == Init /\ [][NextRoundTrip]_vars

\* ------------------------------------------------------------ call switch
MaxCalls == 3

CallIds == 1..MaxCalls

\* The statuses of a call the call switch distinguishes (lines 200-253).
CallStatuses == {"new", "create", "invite", "accepted", "bye", "rejected_a", "rejected_b"}

\* The call sets: every assignment of a status to some of the call ids.
CallSets == UNION {[ids -> CallStatuses] : ids \in SUBSET CallIds}

\* Object.keys(this.calls), in key order.
RECURSIVE ObjectKeys(_)
ObjectKeys(ids) ==
    IF ids = {} THEN <<>>
    ELSE LET first == CHOOSE i \in ids : \A j \in ids : i <= j
         IN  <<first>> \o ObjectKeys(ids \ {first})

\* A faulty variant: an incoming call that is ringing does not count.
SetupStatuses_NoInvite == {"new", "create"}

\* The statuses of line 260: a call that is being set up.
SetupStatuses == {"new", "create", "invite"}

\* The loop of lines 259-263 over the remaining keys.
RECURSIVE NewCallAllowedLoop(_, _, _)
NewCallAllowedLoop(c, keys, avail) ==
    IF keys = <<>> THEN avail
    ELSE NewCallAllowedLoop(c, Tail(keys),
                            IF c[Head(keys)].status \in SetupStatuses THEN FALSE ELSE avail)

\* newCallAllowed() (lines 257-265).
NewCallAllowed(c) == NewCallAllowedLoop(c, ObjectKeys(DOMAIN c), TRUE)

\* The call switch evaluates newCallAllowed() on the calls of the state.
NewCallAllowedCall ==
    /\ available' = <<NewCallAllowed(calls)>>
    /\ UNCHANGED <<user, settings, ui, app, client, store, sessionKey, services,
                   logins, unlocks, refreshes, calls, out, last>>

InitCalls ==
    /\ InitSession
    /\ calls \in {[id \in DOMAIN c |-> [status |-> c[id]]] : c \in CallSets}
    /\ available = NotEvaluated

NextCalls == NewCallAllowedCall

\* newCallAllowed() applied to every call set over MaxCalls call ids.
SpecCalls == InitCalls /\ [][NextCalls]_vars

\* ------------------------------------------------------------ properties
Quiescent == logins = EmptyBag

Persisted(branch, mode) ==
    \E n \in 1..Len(out) :
        out[n].call = "persist" /\ out[n].arg = branch /\ out[n].mode = mode

Called(call) == \E n \in 1..Len(out) : out[n].call = call

\* C1: once a login and the logout() that ran while it was suspended have both
\* completed (no login is suspended any more), the session is not authenticated
\* without a vault key, and is not unauthenticated with the vault still unlocked
\* and a password in memory.
LoginLogoutConsistent ==
    Quiescent =>
        /\ ~(user.authenticated /\ sessionKey = NoKey)
        /\ ~(~user.authenticated /\ settings.vault.unlocked /\ user.password # "")

\* A login of an entitled account has completed after logout() ran during it.
LoginLogoutRaceWitness ==
    /\ Quiescent
    /\ last.op = "login:done"
    /\ last.raced
    /\ user.authenticated
    /\ sessionKey # NoKey

\* C2: at most one login is in progress at any time.
OneLoginAtATime == BagCardinality(logins) <= 1

\* C3: once the salt has been generated, no step deletes or changes it.
SaltWriteOnce == [][store.salt # NoSalt => store'.salt = store.salt]_vars

\* logout() has run on a session whose key was derived with the salt.
SaltKeptWitness ==
    /\ last.op = "logout"
    /\ store.salt # NoSalt
    /\ sessionKey # NoKey
    /\ sessionKey[3] = store.salt

NotOk == last.op = "login:response" /\ last.res.status \in NOTOK_STATUS

\* C4: after a login whose profile request returned a NOTOK status the session
\* is not authenticated, the password is empty and nothing was derived or
\* persisted, whatever the state before.
NotOkLeavesAnonymous ==
    NotOk =>
        /\ ~user.authenticated
        /\ user.password = ""
        /\ ~Called("persist")
        /\ ~Called("derive")

AuthenticatedImpliesUnlocked ==
    user.authenticated =>
        /\ user.username # Null
        /\ settings.vault.unlocked
        /\ sessionKey # NoKey

\* A session authenticated against a vault that an earlier run configured.
AuthenticatedWitness ==
    /\ user.authenticated
    /\ last.op = "login:done"
    /\ last.path = "unlock"
    /\ user.username \in Usernames

\* C7: a login whose key derivation fails leaves authenticated, username,
\* password, the ui and app branches and the Auth Client's credentials as they
\* were when the login started.
AbortRestoresPriorState ==
    last.op = "login:aborted" => Snapshot = last.snap

\* The message the failure notification is to carry: the rate-limited one, with
\* the 8 characters before the final character of the error message, when the
\* error body has the marker, and the generic one in every other case.
ExpectedFailMessage(res) ==
    IF res.error.present /\ Includes(res.error.message, RateLimitMarker)
    THEN "Too many failed login attempts; try again at "
         \o Concat(SubSeq(res.error.message, Len(res.error.message) - 8,
                          Len(res.error.message) - 1))
    ELSE "Failed to login. Please check your credentials."

\* C8: a login that fails with a NOTOK status emits exactly one notification,
\* and its message is the rate-limited or the generic one, never undefined.
FailureMessageDefined ==
    NotOk =>
        /\ Len(out) = 1
        /\ out[1].call = "fg:notify"
        /\ out[1].arg = ExpectedFailMessage(last.res)

NotClient ==
    /\ last.op = "login:response"
    /\ last.res.status \notin NOTOK_STATUS
    /\ last.res.user.client = <<>>

\* C9: a login whose profile has no client is a logout(): it ends with the
\* session unauthenticated, the password empty, the vault inactive and locked,
\* the login view, no credentials on the Auth Client and the call subsystem
\* disconnected without reconnect; it derives no key and starts no service.
NotClientIsLogout ==
    NotClient =>
        /\ ~user.authenticated
        /\ user.password = ""
        /\ ~settings.vault.active
        /\ ~settings.vault.unlocked
        /\ ui.layer = "login"
        /\ client = NoAuth
        /\ services = "stopped"
        /\ \E n \in 1..Len(out) : out[n].call = "calls.disconnect" /\ out[n].arg = "false"
        /\ ~Called("derive")
        /\ ~Called("initServices")

\* An authenticated session is logged out by the login of an account without
\* a client.
NotClientWitness ==
    /\ NotClient
    /\ Called("calls.disconnect")
    /\ Persisted("user.password", "cipher")

UnlockStep == last'.op \in {"unlock:done", "unlock:failed"}

InvalidPassword ==
    /\ last.op = "unlock:failed"
    /\ out = <<Ev("throw", "LockError.InvalidPassword")>>

TokenApplied == last'.op = "token:done"

\* C11: a token refresh changes user.platform.tokens.portal and nothing else of
\* the session (authenticated, username, password, the SIP token, the vault
\* flags and the ui branch are as before), and the portal token is the token of
\* the response applied last: the applying step sets it and no other step
\* changes it.
RefreshTokenFrame ==
    [][/\ TokenApplied =>
            /\ user'.platform.tokens.portal = last'.res.user.token
            /\ user'.authenticated = user.authenticated
            /\ user'.username = user.username
            /\ user'.password = user.password
            /\ user'.platform.tokens.sip = user.platform.tokens.sip
            /\ settings' = settings
            /\ ui' = ui
       /\ ~TokenApplied =>
            user'.platform.tokens.portal = user.platform.tokens.portal]_vars

\* A refresh has been applied in an authenticated session over the token of an
\* earlier one, while another response is still awaited.
RefreshTokenWitness ==
    /\ last.op = "token:done"
    /\ last.res.user.token = "t2"
    /\ user.platform.tokens.portal = "t2"
    /\ user.platform.tokens.sip = "sip1"
    /\ user.authenticated
    /\ refreshes > 0

\* C12: a token is fetched only in an authenticated session with the vault
\* unlocked and no login in flight.
RefreshOnlyWhenUnlocked ==
    (last.op = "token:start" /\ Called("get")) =>
        /\ user.authenticated
        /\ settings.vault.unlocked
        /\ Quiescent

\* logout() has run: as the logout handler, or inside the login of an account
\* that is not a client.
LogoutRan == last'.op = "logout" \/ NotClient'

PersistedBranch(branch) ==
    \E n \in 1..Len(out) : out[n].call = "persist" /\ out[n].arg = branch

\* C13, as stated: a logout() invoked while the session is not authenticated
\* performs no persisted write.
LogoutPersistsOnlyAuthenticated ==
    [][(LogoutRan /\ ~user.authenticated) => ~Called("persist")']_vars

\* C13, amended: logout() persists the cleared password exactly when the session
\* was authenticated when it was invoked; the update that clears the
\* authentication flag, with the vault flags and the view, is persisted in
\* plaintext by every logout(), and is the only persisted write of a logout()
\* invoked while the session is not authenticated.
LogoutPersistence ==
    [][LogoutRan =>
        /\ PersistedBranch("user.password")' <=> user.authenticated
        /\ \E n \in 1..Len(out') :
            /\ out'[n].call = "persist"
            /\ out'[n].arg = "settings.vault,ui.layer,user.authenticated"
            /\ out'[n].opt = "encrypt:false"
            /\ out'[n].mode = "plain"
        /\ \A n \in 1..Len(out') :
            (out'[n].call = "persist" /\ out'[n].opt # "encrypt:false")
                => (user.authenticated /\ out'[n].arg = "user.password")]_vars

\* The logout handler has run on a session that was not authenticated: the
\* password update was not persisted, the flag update was.
LogoutAnonymousWitness ==
    /\ last.op = "logout"
    /\ ~PersistedBranch("user.password")
    /\ Persisted("settings.vault,ui.layer,user.authenticated", "plain")

\* C14: a login that completes persists the authenticated/username update with
\* encryption disabled, and does so before the credential-bearing update, which
\* is persisted with no encrypt override; and no step persists the password with
\* encrypt: false.
AuthenticatedBeforeCredentials ==
    /\ last.op = "login:done" =>
        \E i, j \in 1..Len(out) :
            /\ i < j
            /\ out[i].call = "persist"
            /\ out[i].arg = "user.authenticated,user.username"
            /\ out[i].opt = "encrypt:false"
            /\ out[j].call = "persist"
            /\ out[j].arg = "user.credentials"
            /\ out[j].opt = "encrypt:omitted"
    /\ \A n \in 1..Len(out) :
        (out[n].call = "persist" /\ out[n].arg \in {"user.credentials", "user.password"})
            => out[n].opt # "encrypt:false"

\* A login has completed on a configured vault: the flag went out in plaintext,
\* the credentials encrypted.
AuthenticatedBeforeCredentialsWitness ==
    /\ last.op = "login:done"
    /\ Persisted("user.authenticated,user.username", "plain")
    /\ Persisted("user.credentials", "cipher")
    /\ user.password \in Passwords

\* C15: after logout() the vault key is not held in memory.
KeyDiscardedOnLogout ==
    (last.op = "logout" \/ NotClient) => sessionKey = NoKey

\* The login that followed a logout with the credentials of the ended session
\* has completed.
RoundTripDone == last.op = "login:done" /\ "vault" \in DOMAIN last.snap

\* C16: logout followed by login with the same credentials gives the session it
\* started from: the same authenticated, username, password, client_id, id, SIP
\* token and realName, and the same vault flags.
RoundTripEquivalent ==
    RoundTripDone =>
        /\ user.authenticated = last.snap.user.authenticated
        /\ user.username = last.snap.user.username
        /\ user.password = last.snap.user.password
        /\ user.client_id = last.snap.user.client_id
        /\ user.id = last.snap.user.id
        /\ user.platform.tokens.sip = last.snap.user.platform.tokens.sip
        /\ user.realName = last.snap.user.realName
        /\ settings.vault.active = last.snap.vault.active
        /\ settings.vault.unlocked = last.snap.vault.unlocked

Notified(icon, message, type) ==
    \E n \in 1..Len(out) : out[n] = Notify(icon, message, type)

\* C17: a login that completes lands on the settings view, with the reminder to
\* review the settings, exactly when app.installed was true at that moment, and
\* on the contacts view with the welcome by name otherwise; it leaves
\* app.installed and app.updated false, and no step sets app.installed, so every
\* later login that completes lands on the contacts view.
LandingView ==
    [][/\ last'.op = "login:done" =>
            /\ ui'.layer = (IF app.installed THEN "settings" ELSE "contacts")
            /\ IF app.installed
               THEN /\ Notified("settings",
                                "Review your softphone and audio settings.", "warning")'
                    /\ ~Notified("user", "Welcome back, " \o user.realName, "success")'
               ELSE /\ Notified("user", "Welcome back, " \o user.realName, "success")'
                    /\ ~Notified("settings",
                                 "Review your softphone and audio settings.", "warning")'
            /\ ~app'.installed
            /\ ~app'.updated
       /\ ~app.installed => ~app'.installed]_vars

\* The first login after the installation has completed: it landed on the
\* settings view and cleared the flag.
LandingSettingsWitness ==
    /\ last.op = "login:done"
    /\ ui.layer = "settings"
    /\ Notified("settings", "Review your softphone and audio settings.", "warning")
    /\ ~app.installed

SettingUp(c) == \E id \in DOMAIN c : c[id].status \in {"new", "create", "invite"}

\* C18: newCallAllowed() returns false exactly when at least one call has the
\* status new, create or invite, and true otherwise: on the empty call set and on
\* any number of calls that are accepted or have ended.
NewCallAllowedExact ==
    available # NotEvaluated =>
        /\ available = <<FALSE>> <=> SettingUp(calls)
        /\ available = <<TRUE>> <=> ~SettingUp(calls)

\* newCallAllowed() has returned false on an accepted call next to an incoming
\* one that is ringing.
NewCallAllowedWitness ==
    /\ available = <<FALSE>>
    /\ \E i, j \in DOMAIN calls :
        calls[i].status = "accepted" /\ calls[j].status = "invite"

\* C19: whenever no login is in flight and the session is authenticated, the
\* credentials on the Auth Client are the username and password of the state.
ClientMatchesSession ==
    (Quiescent /\ user.authenticated) =>
        client = SetupClient(user.username, user.password)

====
